---- MODULE Spec2Model ----
(***************************************************************************)
(* RSA-CBC (johnnycwatt/RSA-CBC): the numeric core of src/common/rsa_cbc.cpp*)
(* and the request/acknowledgement session of src/server/server.cpp and    *)
(* src/client/client.cpp.                                                  *)
(*                                                                         *)
(* Every cpp_int of the program is held as an arbitrary-precision natural: *)
(* a little-endian sequence of limbs below Radix with no leading zero limb *)
(* (zero is <<>>).  The only cpp_int of the program that goes negative is  *)
(* the Bezout coefficient of mod_inverse; it is a record [neg, mag].       *)
(* Strings (std::string, the socket payloads) are sequences of byte values.*)
(***************************************************************************)
EXTENDS Integers, Sequences, FiniteSets, TLC

(***************************************************************************)
(* boost::multiprecision::cpp_int                                          *)
(***************************************************************************)
Radix == 2^15

RECURSIVE B(_)
\* the cpp_int holding the natural number i
B(i) == IF i = 0 THEN <<>> ELSE <<i % Radix>> \o B(i \div Radix)

\* the value fits the checker's native integers (below Radix^2 = 2^30)
Small(a) == Len(a) <= 2

\* the native value of a Small cpp_int
N(a) == IF Len(a) = 0 THEN 0
        ELSE IF Len(a) = 1 THEN a[1]
        ELSE a[1] + Radix * a[2]

RECURSIVE Norm(_)
\* drop the leading (most significant) zero limbs
Norm(s) == IF s = <<>> THEN <<>>
           ELSE IF s[Len(s)] = 0 THEN Norm(SubSeq(s, 1, Len(s) - 1))
           ELSE s

RECURSIVE BLessAt(_, _, _)
BLessAt(a, b, i) == IF i = 0 THEN FALSE
                    ELSE IF a[i] # b[i] THEN a[i] < b[i]
                    ELSE BLessAt(a, b, i - 1)

\* a < b
BLess(a, b) == IF Len(a) # Len(b) THEN Len(a) < Len(b) ELSE BLessAt(a, b, Len(a))

\* a <= b
BLeq(a, b) == ~BLess(b, a)

Limb(a, i) == IF i <= Len(a) THEN a[i] ELSE 0

RECURSIVE BAddAt(_, _, _, _)
BAddAt(a, b, i, carry) ==
    IF i > Len(a) /\ i > Len(b)
    THEN IF carry = 0 THEN <<>> ELSE <<carry>>
    ELSE LET s == Limb(a, i) + Limb(b, i) + carry
         IN  <<s % Radix>> \o BAddAt(a, b, i + 1, s \div Radix)

\* a + b
BAdd(a, b) == IF Small(a) /\ Small(b) THEN B(N(a) + N(b)) ELSE BAddAt(a, b, 1, 0)

RECURSIVE BSubAt(_, _, _, _)
BSubAt(a, b, i, borrow) ==
    IF i > Len(a) THEN <<>>
    ELSE LET s == Limb(a, i) - Limb(b, i) - borrow
         IN  IF s < 0 THEN <<s + Radix>> \o BSubAt(a, b, i + 1, 1)
             ELSE <<s>> \o BSubAt(a, b, i + 1, 0)

\* a - b, for b <= a
BSub(a, b) == IF Small(a) /\ Small(b) THEN B(N(a) - N(b)) ELSE Norm(BSubAt(a, b, 1, 0))

RECURSIVE BMulLimbAt(_, _, _, _)
BMulLimbAt(a, l, i, carry) ==
    IF i > Len(a)
    THEN IF carry = 0 THEN <<>> ELSE <<carry>>
    ELSE LET s == a[i] * l + carry
         IN  <<s % Radix>> \o BMulLimbAt(a, l, i + 1, s \div Radix)

\* a * l for one limb l
BMulLimb(a, l) == IF l = 0 THEN <<>> ELSE BMulLimbAt(a, l, 1, 0)

\* a * Radix
ShiftLimb(a) == IF a = <<>> THEN <<>> ELSE <<0>> \o a

RECURSIVE BMulAt(_, _, _)
BMulAt(a, b, i) == IF i > Len(b) THEN <<>>
                   ELSE BAdd(BMulLimb(a, b[i]), ShiftLimb(BMulAt(a, b, i + 1)))

\* a * b
BMul(a, b) == IF Len(a) <= 1 /\ Len(b) <= 1 THEN B(N(a) * N(b)) ELSE BMulAt(a, b, 1)

RECURSIVE QuotLimb(_, _, _, _)
\* the largest limb g + x, x < 2 * step, with (g + x) * b <= rem
QuotLimb(rem, b, g, step) ==
    IF step = 0 THEN g
    ELSE IF BLeq(BMulLimb(b, g + step), rem)
         THEN QuotLimb(rem, b, g + step, step \div 2)
         ELSE QuotLimb(rem, b, g, step \div 2)

RECURSIVE BDivModAt(_, _, _, _, _)
\* schoolbook long division from the most significant limb of a down
BDivModAt(a, b, i, quo, rem) ==
    IF i = 0 THEN [quo |-> Norm(quo), rem |-> rem]
    ELSE LET r == Norm(<<a[i]>> \o rem)
             g == IF BLess(r, b) THEN 0 ELSE QuotLimb(r, b, 0, Radix \div 2)
         IN  BDivModAt(a, b, i - 1, <<g>> \o quo, BSub(r, BMulLimb(b, g)))

\* [quo |-> a / b, rem |-> a % b], for b # 0
BDivMod(a, b) == IF Small(a) /\ Small(b)
                 THEN [quo |-> B(N(a) \div N(b)), rem |-> B(N(a) % N(b))]
                 ELSE BDivModAt(a, b, Len(a), <<>>, <<>>)

BDiv(a, b) == BDivMod(a, b).quo
BMod(a, b) == BDivMod(a, b).rem

RECURSIVE Pow2(_)
\* cpp_int(1) << k
Pow2(k) == IF k < 15 THEN <<2^k>> ELSE <<0>> \o Pow2(k - 15)

\* a << k
BShl(a, k) == BMul(a, Pow2(k))

RECURSIVE BitsOp(_, _, _, _)
\* bitwise combination of two limbs; op is "and", "or" or "xor"
BitsOp(op, x, y, n) ==
    IF n = 0 THEN 0
    ELSE LET p == x % 2
             q == y % 2
             bit == IF op = "and" THEN p * q
                    ELSE IF op = "or" THEN (IF p + q > 0 THEN 1 ELSE 0)
                    ELSE (p + q) % 2
         IN  bit + 2 * BitsOp(op, x \div 2, y \div 2, n - 1)

RECURSIVE BBitsAt(_, _, _, _)
BBitsAt(op, a, b, i) ==
    IF i > Len(a) /\ i > Len(b) THEN <<>>
    ELSE <<BitsOp(op, Limb(a, i), Limb(b, i), 15)>> \o BBitsAt(op, a, b, i + 1)

\* a & b,  a | b,  a ^ b  (cpp_int's bitwise operators on non-negative values)
BAnd(a, b) == Norm(BBitsAt("and", a, b, 1))
BOr(a, b) == Norm(BBitsAt("or", a, b, 1))
BXor(a, b) == Norm(BBitsAt("xor", a, b, 1))


\* a signed cpp_int: mod_inverse's coefficients t, new_t
Signed(neg, mag) == [neg |-> neg /\ mag # <<>>, mag |-> mag]

\* a - b on signed values
SSub(a, b) ==
    IF a.neg # b.neg THEN Signed(a.neg, BAdd(a.mag, b.mag))
    ELSE IF BLeq(b.mag, a.mag) THEN Signed(a.neg, BSub(a.mag, b.mag))
    ELSE Signed(~a.neg, BSub(b.mag, a.mag))

\* q * a for a natural q and a signed a
SMul(q, a) == Signed(a.neg, BMul(q, a.mag))

(***************************************************************************)
(* src/common/rsa_cbc.cpp                                                  *)
(***************************************************************************)
RECURSIVE PowmLoop(_, _)
\* powm's right-to-left square and multiply over the bits of the exponent:
\* st.x accumulates the product, st.y is the running square, st.b what is
\* left of the exponent
PowmLoop(st, c) ==
    IF st.b = <<>> THEN BMod(st.x, c)
    ELSE PowmLoop([x |-> IF st.b[1] % 2 = 1 THEN BMod(BMul(st.x, st.y), c) ELSE st.x,
                   y |-> IF Len(st.b) = 1 /\ st.b[1] = 1 THEN st.y
                         ELSE BMod(BMul(st.y, st.y), c),
                   b |-> BDiv(st.b, <<2>>)], c)

\* mod_exp(base, exp, mod) = powm(base, exp, mod)
mod_exp(base, exp, mod) == PowmLoop([x |-> <<1>>, y |-> base, b |-> exp], mod)

RECURSIVE ModInverseLoop(_, _, _, _)
\* the while (new_r != 0) loop; yields the final t and r
ModInverseLoop(t, new_t, r, new_r) ==
    IF new_r = <<>> THEN [t |-> t, r |-> r]
    ELSE LET quotient == BDiv(r, new_r)
         IN  ModInverseLoop(new_t, SSub(t, SMul(quotient, new_t)),
                            new_r, BSub(r, BMul(quotient, new_r)))

\* mod_inverse without its final adjustment "if (t < 0) t += phi"
mod_inverse_unadjusted(e, phi) ==
    LET end == ModInverseLoop(Signed(FALSE, <<>>), Signed(FALSE, <<1>>), phi, e)
    IN  IF BLess(<<1>>, end.r) THEN Signed(FALSE, <<>>) ELSE end.t

\* mod_inverse(e, phi): a signed cpp_int
mod_inverse(e, phi) ==
    LET end == ModInverseLoop(Signed(FALSE, <<>>), Signed(FALSE, <<1>>), phi, e)
    IN  IF BLess(<<1>>, end.r) THEN Signed(FALSE, <<>>)
        ELSE IF end.t.neg THEN SSub(Signed(FALSE, phi), Signed(FALSE, end.t.mag))
        ELSE end.t

\* rsa_encrypt(m, e, n)
rsa_encrypt(m, e, n) == mod_exp(m, e, n)

\* rsa_decrypt raising to the power d - 1
rsa_decrypt_short(c, d, n) == mod_exp(c, BSub(d, <<1>>), n)

\* rsa_decrypt(c, d, n)
rsa_decrypt(c, d, n) == mod_exp(c, d, n)

\* prev taken whole, without % 256
LowAll(prev) == prev

\* prev % 256
Low8(prev) == BMod(prev, <<256>>)

RECURSIVE CbcEncryptFrom(_, _, _, _, _)
\* the for loop of cbc_encrypt from byte i on, prev being the last block
CbcEncryptFrom(plaintext, e, n, prev, i) ==
    IF i > Len(plaintext) THEN <<>>
    ELSE LET m == B(plaintext[i])
             x == BXor(m, Low8(prev))
             c == rsa_encrypt(x, e, n)
         IN  <<c>> \o CbcEncryptFrom(plaintext, e, n, c, i + 1)

\* cbc_encrypt(plaintext, e, n, iv): one cipher block per plaintext byte
cbc_encrypt(plaintext, e, n, iv) == CbcEncryptFrom(plaintext, e, n, iv, 1)

\* static_cast<char>(m.convert_to<int>()): the low byte (every m of the model
\* is below 2^31, where convert_to<int> is exact)
ToChar(m) == IF m = <<>> THEN 0 ELSE m[1] % 256

RECURSIVE CbcDecryptFrom(_, _, _, _, _)
\* the for loop of cbc_decrypt from block i on
CbcDecryptFrom(cipher, d, n, prev, i) ==
    IF i > Len(cipher) THEN <<>>
    ELSE LET c == cipher[i]
             x == rsa_decrypt(c, d, n)
             m == BXor(x, Low8(prev))
         IN  <<ToChar(m)>> \o CbcDecryptFrom(cipher, d, n, c, i + 1)

RECURSIVE CbcDecryptUnchained(_, _, _, _, _)
\* cbc_decrypt whose prev is never advanced past the iv
CbcDecryptUnchained(cipher, d, n, prev, i) ==
    IF i > Len(cipher) THEN <<>>
    ELSE LET x == rsa_decrypt(cipher[i], d, n)
         IN  <<ToChar(BXor(x, Low8(prev)))>> \o CbcDecryptUnchained(cipher, d, n, prev, i + 1)

cbc_decrypt_unchained(cipher, d, n, iv) == CbcDecryptUnchained(cipher, d, n, iv, 1)

\* cbc_decrypt(cipher, d, n, iv): one byte per cipher block
cbc_decrypt(cipher, d, n, iv) == CbcDecryptFrom(cipher, d, n, iv, 1)


RECURSIVE OddPart(_, _)
\* while (d % 2 == 0) { d /= 2; ++s; }  from d = n - 1, s = 0
OddPart(d, s) == IF d[1] % 2 = 0 THEN OddPart(BDiv(d, <<2>>), s + 1)
                 ELSE [d |-> d, s |-> s]

\* miller_rabin_test's early returns: "false", "true", or "rounds" to go on
MRTrivial(n) ==
    IF BLeq(n, <<1>>) \/ (n[1] % 2 = 0 /\ n # <<2>>) THEN "false"
    ELSE IF n = <<2>> \/ n = <<3>> THEN "true"
    ELSE "rounds"

RECURSIVE MRSquaresToOne(_, _, _, _)
\* the inner loop also taking a square equal to 1 for a pass
MRSquaresToOne(x, n, r, s) ==
    IF r < s - 1
    THEN LET x2 == mod_exp(x, <<2>>, n)
         IN  IF x2 = BSub(n, <<1>>) \/ x2 = <<1>> THEN TRUE
             ELSE MRSquaresToOne(x2, n, r + 1, s)
    ELSE FALSE

RECURSIVE MRSquares(_, _, _, _)
\* for (r = 0; r < s - 1; ++r): square x, looking for n - 1
MRSquares(x, n, r, s) ==
    IF r < s - 1
    THEN LET x2 == mod_exp(x, <<2>>, n)
         IN  IF x2 = BSub(n, <<1>>) THEN TRUE ELSE MRSquares(x2, n, r + 1, s)
    ELSE FALSE

\* a round without the test x == 1
MRRoundWithoutOne(n, a) ==
    LET ds == OddPart(BSub(n, <<1>>), 0)
        x == mod_exp(a, ds.d, n)
    IN  IF x = BSub(n, <<1>>) THEN TRUE ELSE MRSquares(x, n, 0, ds.s)

\* one round of the for loop with the witness a drawn: TRUE when the round
\* passes (the loop goes on), FALSE when the test returns false
MRRound(n, a) ==
    LET ds == OddPart(BSub(n, <<1>>), 0)
        x == mod_exp(a, ds.d, n)
    IN  IF x = <<1>> \/ x = BSub(n, <<1>>) THEN TRUE
        ELSE MRSquares(x, n, 0, ds.s)

\* (bits + 63) / 64: the number of 64-bit chunks random_number draws
Iterations(bits) == (bits + 63) \div 64

RECURSIVE Chunked(_, _, _)
\* result = (result << 64) | gen()  for each of the chunks drawn, in order
Chunked(chunks, i, result) ==
    IF i > Len(chunks) THEN result
    ELSE Chunked(chunks, i + 1, BOr(BShl(result, 64), chunks[i]))

\* random_number without the mask "result &= (cpp_int(1) << bits) - 1"
random_number_unmasked(bits, chunks) ==
    BOr(Chunked(chunks, 1, <<>>), BOr(Pow2(bits - 1), <<1>>))

\* random_number(bits), chunks being what gen() yields
random_number(bits, chunks) ==
    LET result == Chunked(chunks, 1, <<>>)
        masked == BAnd(result, BSub(Pow2(bits), <<1>>))
    IN  BOr(masked, BOr(Pow2(bits - 1), <<1>>))

\* the public exponent generate_rsa_keys sets
PublicExponent == 65537

\* generate_rsa_keys once p and q are drawn: n, e and d
RsaKeys(p, q) ==
    LET phi == BMul(BSub(p, <<1>>), BSub(q, <<1>>))
        e == B(PublicExponent)
    IN  [n |-> BMul(p, q), e |-> e, d |-> mod_inverse(e, phi)]

(***************************************************************************)
(* Text: cpp_int::str(), cpp_int(std::string), the wire format             *)
(***************************************************************************)
Bar == 124
Comma == 44
Dot == 46

RECURSIVE Digits(_)
\* the decimal digits of a > 0, most significant first
Digits(a) == IF a = <<>> THEN <<>>
             ELSE LET qr == BDivMod(a, <<10>>)
                  IN  Digits(qr.quo) \o <<48 + N(qr.rem)>>

\* cpp_int::str()
Str(a) == IF a = <<>> THEN <<48>> ELSE Digits(a)

\* the value of one character as a digit, 99 when it is none
DigitVal(ch) == IF ch >= 48 /\ ch <= 57 THEN ch - 48
                ELSE IF ch >= 97 /\ ch <= 102 THEN 10 + ch - 97
                ELSE IF ch >= 65 /\ ch <= 70 THEN 10 + ch - 65
                ELSE 99

RECURSIVE ParseFrom(_, _, _, _)
\* the digits of s from position i on in the given radix, acc being the value
\* so far; a character that is no digit of the radix throws
ParseFrom(s, i, radix, acc) ==
    IF i > Len(s) THEN [ok |-> TRUE, val |-> acc]
    ELSE IF DigitVal(s[i]) >= radix THEN [ok |-> FALSE, val |-> <<>>]
    ELSE ParseFrom(s, i + 1, radix, BAdd(BMul(acc, <<radix>>), B(DigitVal(s[i]))))

\* cpp_int(const std::string&): ok = FALSE is the std::runtime_error it throws.
\* The empty string is 0; a leading 0 selects octal and 0x hexadecimal.  No
\* string of the model begins with a sign.
ParseCppInt(s) ==
    IF s = <<>> THEN [ok |-> TRUE, val |-> <<>>]
    ELSE IF s[1] = 48
         THEN IF Len(s) > 1 /\ s[2] \in {120, 88}
              THEN ParseFrom(s, 3, 16, <<>>)
              ELSE ParseFrom(s, 2, 8, <<>>)
    ELSE ParseFrom(s, 1, 10, <<>>)

\* std::string::find(ch): the first position of ch in s, 0 for npos
Find(s, ch) == IF \E i \in 1..Len(s) : s[i] = ch
               THEN CHOOSE i \in 1..Len(s) : s[i] = ch /\ \A j \in 1..(i - 1) : s[j] # ch
               ELSE 0

RECURSIVE Blocks(_)
\* while (getline(ss, block, ',')) if (!block.empty()): the non-empty fields
Blocks(s) ==
    IF s = <<>> THEN <<>>
    ELSE LET k == Find(s, Comma)
             head == IF k = 0 THEN s ELSE SubSeq(s, 1, k - 1)
             rest == IF k = 0 THEN <<>> ELSE SubSeq(s, k + 1, Len(s))
         IN  (IF head = <<>> THEN <<>> ELSE <<head>>) \o Blocks(rest)

RECURSIVE JoinBlocks(_, _)
\* the client's loop writing encrypted_message[i].str() and "," between blocks
JoinBlocks(cipher, i) ==
    IF i > Len(cipher) THEN <<>>
    ELSE Str(cipher[i]) \o (IF i < Len(cipher) THEN <<Comma>> ELSE <<>>)
         \o JoinBlocks(cipher, i + 1)

\* send_data of the client: <encrypted nonce>|<c1>,<c2>,...
Request(encrypted_nonce, cipher) == Str(encrypted_nonce) \o <<Bar>> \o JoinBlocks(cipher, 1)

\* "Message received: "
AckPrefix == <<77, 101, 115, 115, 97, 103, 101, 32, 114, 101, 99, 101, 105, 118, 101, 100, 58, 32>>

\* the server's response: "Message received: " + decrypted_message + "\r\n"
Response(decrypted_message) == AckPrefix \o decrypted_message \o <<13, 10>>

\* the server's public_key: e.str() + "|" + n.str()
PublicKeyText(e, n) == Str(e) \o <<Bar>> \o Str(n)


(***************************************************************************)
(* Bounds of the model and the inputs the calls are made with              *)
(***************************************************************************)
\* mod_inverse is called with e in 1..MaxE and phi in 2..MaxPhi
MaxE == 40
MaxPhi == 30
\* plaintexts have at most MaxLen bytes
MaxLen == 2
\* public exponents below the standard one go up to MaxExp
MaxExp == 7

\* the primes key pairs are built from, and the plaintext bytes
KeyPrimes == {3, 17, 19, 23}
PlainBytes == {0, 200}

RECURSIVE Gcd(_, _)
Gcd(a, b) == IF b = 0 THEN a ELSE Gcd(b, a % b)

IsPrime(n) == n > 1 /\ \A k \in 2..(n - 1) : n % k # 0

\* the valid key pairs with primes p, q: n = p*q and e*d = 1 modulo (p-1)(q-1),
\* e being a small exponent or the standard one
KeysOf(p, q) ==
    LET phi == (p - 1) * (q - 1)
    IN  { [n |-> B(p * q), e |-> B(ed[1]), d |-> B(ed[2])] :
            ed \in { x \in ((2..MaxExp) \cup {PublicExponent}) \X (1..(phi - 1)) :
                       ((x[1] % phi) * x[2]) % phi = 1 } }

\* every valid key pair over KeyPrimes
ValidKeys == UNION { KeysOf(pq[1], pq[2]) :
                       pq \in { x \in KeyPrimes \X KeyPrimes : x[1] < x[2] } }

\* the byte strings of at most k bytes over PlainBytes
Plaintexts(k) == UNION { [1..len -> PlainBytes] : len \in 0..k }

(***************************************************************************)
(* State                                                                   *)
(***************************************************************************)
VARIABLES
    call,     \* the library call under way: its function and arguments
    ret,      \* what the library call has computed so far
    mr,       \* miller_rabin_test: n, k, the round i, the witness a, the result
    gen,      \* generate_prime and generate_rsa_keys: place, candidate, primes, keys
    server,   \* server.cpp: its place in main, its key pair, the last request
    client,   \* client.cpp: its place in main, the server's public key, its log
    link      \* the connection: its state and the payloads in flight
vars == <<call, ret, mr, gen, server, client, link>>

\* a part of the program that a specification does not run
Off == [pc |-> "off"]

(***************************************************************************)
(* mod_inverse called on its own                                           *)
(***************************************************************************)
InitInverse ==
    /\ call \in { [fn |-> "mod_inverse", e |-> B(e), phi |-> B(phi)] :
                    e \in (1..MaxE) \cup {PublicExponent}, phi \in 2..MaxPhi }
    /\ ret = [pc |-> "called"]
    /\ mr = Off /\ gen = Off /\ server = Off /\ client = Off /\ link = Off

CallModInverse ==
    /\ call.fn = "mod_inverse" /\ ret.pc = "called"
    /\ ret' = [pc |-> "returned", d |-> mod_inverse(call.e, call.phi)]
    /\ UNCHANGED <<call, mr, gen, server, client, link>>

SpecInverse == InitInverse /\ [][CallModInverse]_vars

(***************************************************************************)
(* rsa_encrypt then rsa_decrypt, as main does with the nonce               *)
(***************************************************************************)
InitRsa ==
    /\ call \in UNION { { [fn |-> "rsa", key |-> key, m |-> B(m)] : m \in 0..(N(key.n) - 1) } :
                          key \in ValidKeys }
    /\ ret = [pc |-> "called"]
    /\ mr = Off /\ gen = Off /\ server = Off /\ client = Off /\ link = Off

RsaEncrypt ==
    /\ call.fn = "rsa" /\ ret.pc = "called"
    /\ ret' = [pc |-> "encrypted", c |-> rsa_encrypt(call.m, call.key.e, call.key.n)]
    /\ UNCHANGED <<call, mr, gen, server, client, link>>

RsaDecrypt ==
    /\ call.fn = "rsa" /\ ret.pc = "encrypted"
    /\ ret' = [pc |-> "decrypted", c |-> ret.c,
               m |-> rsa_decrypt(ret.c, call.key.d, call.key.n)]
    /\ UNCHANGED <<call, mr, gen, server, client, link>>

SpecRsa == InitRsa /\ [][RsaEncrypt \/ RsaDecrypt]_vars

(***************************************************************************)
(* cbc_encrypt then cbc_decrypt, as main does with the message; with       *)
(* call.tamper, one cipher block is then replaced and the sequence         *)
(* decrypted again                                                         *)
(***************************************************************************)
\* the IVs of a tampering run, and what replaces the block c of a cipher
TamperIvs(n) == {1, 2, 255, n - 1}
Replacements(c, n) == { BAdd(c, <<1>>), BAdd(c, <<256>>), BAdd(c, n), BXor(c, <<255>>) }

InitCbc ==
    /\ call \in UNION { { [fn |-> "cbc", tamper |-> FALSE, key |-> key,
                           plaintext |-> pt, iv |-> B(iv)] :
                            pt \in Plaintexts(MaxLen), iv \in 1..(N(key.n) - 1) } :
                          key \in ValidKeys }
    /\ ret = [pc |-> "called"]
    /\ mr = Off /\ gen = Off /\ server = Off /\ client = Off /\ link = Off

InitTamper ==
    /\ call \in UNION { { [fn |-> "cbc", tamper |-> TRUE, key |-> key,
                           plaintext |-> pt, iv |-> B(iv)] :
                            pt \in Plaintexts(MaxLen + 1),
                            iv \in { x \in TamperIvs(N(key.n)) : x < N(key.n) } } :
                          key \in { k \in ValidKeys : N(k.n) > 255 } }
    /\ ret = [pc |-> "called"]
    /\ mr = Off /\ gen = Off /\ server = Off /\ client = Off /\ link = Off

CbcEncrypt ==
    /\ call.fn = "cbc" /\ ret.pc = "called"
    /\ ret' = [pc |-> "encrypted",
               cipher |-> cbc_encrypt(call.plaintext, call.key.e, call.key.n, call.iv)]
    /\ UNCHANGED <<call, mr, gen, server, client, link>>

CbcDecrypt ==
    /\ call.fn = "cbc" /\ ret.pc = "encrypted"
    /\ ret' = [pc |-> "decrypted", cipher |-> ret.cipher,
               plain |-> cbc_decrypt(ret.cipher, call.key.d, call.key.n, call.iv)]
    /\ UNCHANGED <<call, mr, gen, server, client, link>>

\* the cipher sequence with block i replaced by another value
Tamper ==
    /\ call.fn = "cbc" /\ call.tamper /\ ret.pc = "decrypted"
    /\ \E i \in 1..Len(ret.cipher) :
         \E c2 \in Replacements(ret.cipher[i], call.key.n) :
            ret' = [pc |-> "tampered", cipher |-> ret.cipher, plain |-> ret.plain,
                    at |-> i, cipher2 |-> [ret.cipher EXCEPT ![i] = c2]]
    /\ UNCHANGED <<call, mr, gen, server, client, link>>

CbcDecryptTampered ==
    /\ call.fn = "cbc" /\ ret.pc = "tampered"
    /\ ret' = [ret EXCEPT !.pc = "redecrypted"] @@
              [plain2 |-> cbc_decrypt(ret.cipher2, call.key.d, call.key.n, call.iv)]
    /\ UNCHANGED <<call, mr, gen, server, client, link>>

SpecCbc == InitCbc /\ [][CbcEncrypt \/ CbcDecrypt]_vars

SpecTamper == InitTamper /\ [][CbcEncrypt \/ CbcDecrypt \/ Tamper \/ CbcDecryptTampered]_vars


(***************************************************************************)
(* cbc_encrypt of one plaintext under two IVs                              *)
(***************************************************************************)
\* the IVs of such a run, out of [1, n-1]
IvSamples(n) == { x \in {1, 2, 257, 258, n - 1} : x >= 1 /\ x <= n - 1 }

InitIv ==
    /\ call \in UNION { { [fn |-> "iv", key |-> key, plaintext |-> pt,
                           iv1 |-> B(ivs[1]), iv2 |-> B(ivs[2])] :
                            pt \in Plaintexts(MaxLen) \ {<<>>},
                            ivs \in { x \in IvSamples(N(key.n)) \X IvSamples(N(key.n)) :
                                        x[1] # x[2] } } :
                          key \in ValidKeys }
    /\ ret = [pc |-> "called"]
    /\ mr = Off /\ gen = Off /\ server = Off /\ client = Off /\ link = Off

EncryptFirst ==
    /\ call.fn = "iv" /\ ret.pc = "called"
    /\ ret' = [pc |-> "first",
               cipher1 |-> cbc_encrypt(call.plaintext, call.key.e, call.key.n, call.iv1)]
    /\ UNCHANGED <<call, mr, gen, server, client, link>>

EncryptSecond ==
    /\ call.fn = "iv" /\ ret.pc = "first"
    /\ ret' = [pc |-> "both", cipher1 |-> ret.cipher1,
               cipher2 |-> cbc_encrypt(call.plaintext, call.key.e, call.key.n, call.iv2)]
    /\ UNCHANGED <<call, mr, gen, server, client, link>>

SpecIv == InitIv /\ [][EncryptFirst \/ EncryptSecond]_vars


(***************************************************************************)
(* miller_rabin_test, one round of its loop at a time                      *)
(***************************************************************************)
\* miller_rabin_test is called on its own with n in 0..MaxN and k in 1..MaxRounds
MaxN == 30
MaxRounds == 5

\* the witnesses tried for an n above MaxN, out of [2, n-2]
SampleWitnesses == {<<2>>, <<3>>}

\* what dis(gen) can draw for n: all of [2, n-2] up to MaxN, a sample above
Witnesses(n) == IF BLeq(n, B(MaxN)) THEN { B(a) : a \in 2..(N(n) - 2) }
                ELSE SampleWitnesses

\* miller_rabin_test(n, k) entered; a = 0 until a witness is drawn
MRCalled(n, k) == [pc |-> "call", n |-> n, k |-> k, i |-> 0, a |-> <<>>, result |-> "none"]

InitMR ==
    /\ mr \in { MRCalled(B(n), k) : n \in 0..MaxN, k \in 1..MaxRounds }
    /\ gen = Off
    /\ call = Off /\ ret = Off /\ server = Off /\ client = Off /\ link = Off

\* the early returns, else on to the rounds (none of them for k <= 0)
MRCall ==
    /\ mr.pc = "call"
    /\ LET t == MRTrivial(mr.n)
       IN  mr' = IF t # "rounds" THEN [mr EXCEPT !.pc = "done", !.result = t]
                 ELSE IF mr.k <= 0 THEN [mr EXCEPT !.pc = "done", !.result = "true"]
                 ELSE [mr EXCEPT !.pc = "rounds"]
    /\ UNCHANGED <<call, ret, gen, server, client, link>>

\* round i of the for loop: draw a, return false or go on; after round k - 1
\* return true
MRRoundStep ==
    /\ mr.pc = "rounds"
    /\ \E a \in Witnesses(mr.n) :
         mr' = IF ~MRRound(mr.n, a)
               THEN [mr EXCEPT !.a = a, !.pc = "done", !.result = "false"]
               ELSE IF mr.i + 1 < mr.k
               THEN [mr EXCEPT !.a = a, !.i = @ + 1]
               ELSE [mr EXCEPT !.a = a, !.i = @ + 1, !.pc = "done", !.result = "true"]
    /\ UNCHANGED <<call, ret, gen, server, client, link>>

SpecMR == InitMR /\ [][MRCall \/ MRRoundStep]_vars

(***************************************************************************)
(* generate_prime and generate_rsa_keys                                    *)
(***************************************************************************)
\* generate_prime is called on its own with bits in 2..MaxBits and in WideBits,
\* the latter around the 64 bits of one chunk
MaxBits == 24
WideBits == {63, 64, 65, 66}
\* the round count generate_prime passes to miller_rabin_test
PrimeRounds == 10
\* the bits generate_rsa_keys is called with
KeyBits == {10, 40}

\* the 64-bit values gen() yields: all zeros, all ones, and three with the top
\* bits set over 917519, 786433 and 25
Chunks == { <<>>, BSub(Pow2(64), <<1>>), BAdd(Pow2(63), B(917519)),
            BAdd(Pow2(63), B(69 * 2^20 + 786433)), BAdd(Pow2(62), <<25>>) }

\* generate_prime(bits) entered; stage tells who called: "main", or
\* generate_rsa_keys for its p or its q
PrimeCalled(g, bits, stage) ==
    [g EXCEPT !.pc = "draw", !.bits = bits, !.stage = stage, !.candidate = <<>>]

\* no key pair yet
NoKeys == [n |-> <<>>, e |-> <<>>, d |-> Signed(FALSE, <<>>)]

\* before the call: no candidate, no prime returned, no p, no q (all 0), no keys
GenStart == [pc |-> "off", fn |-> "none", keybits |-> 0, bits |-> 0, stage |-> "none",
             candidate |-> <<>>, prime |-> <<>>, p |-> <<>>, q |-> <<>>,
             keys |-> NoKeys]

InitGen ==
    /\ gen \in { PrimeCalled([GenStart EXCEPT !.fn = "generate_prime"], bits, "main") :
                   bits \in (2..MaxBits) \cup WideBits }
          \cup { PrimeCalled([GenStart EXCEPT !.fn = "generate_rsa_keys", !.keybits = kb],
                             kb \div 2, "p") : kb \in KeyBits }
    /\ mr = [pc |-> "idle"]
    /\ call = Off /\ ret = Off /\ server = Off /\ client = Off /\ link = Off

\* generate_prime: candidate = random_number(bits), then miller_rabin_test(candidate, 10)
GenDraw ==
    /\ gen.pc = "draw"
    /\ \E chunks \in [1..Iterations(gen.bits) -> Chunks] :
         LET candidate == random_number(gen.bits, chunks)
         IN  /\ gen' = [gen EXCEPT !.pc = "test", !.candidate = candidate]
             /\ mr' = MRCalled(candidate, PrimeRounds)
    /\ UNCHANGED <<call, ret, server, client, link>>

\* the loop testing the same candidate again instead of drawing another
GenRetrySameCandidate ==
    /\ gen.pc = "test" /\ mr.pc = "done" /\ mr.result = "false"
    /\ gen' = [gen EXCEPT !.pc = "test"]
    /\ mr' = MRCalled(gen.candidate, PrimeRounds)
    /\ UNCHANGED <<call, ret, server, client, link>>

\* the test returned false: back to the top of while (true)
GenRetry ==
    /\ gen.pc = "test" /\ mr.pc = "done" /\ mr.result = "false"
    /\ gen' = [gen EXCEPT !.pc = "draw"]
    /\ mr' = [pc |-> "idle"]
    /\ UNCHANGED <<call, ret, server, client, link>>

\* the test returned true and generate_prime returns the candidate to main
GenReturn ==
    /\ gen.pc = "test" /\ mr.pc = "done" /\ mr.result = "true"
    /\ gen.stage = "main"
    /\ gen' = [gen EXCEPT !.pc = "done", !.prime = gen.candidate]
    /\ mr' = [pc |-> "idle"]
    /\ UNCHANGED <<call, ret, server, client, link>>

\* generate_rsa_keys has its p and calls generate_prime for q
KeysGotP ==
    /\ gen.pc = "test" /\ mr.pc = "done" /\ mr.result = "true"
    /\ gen.stage = "p"
    /\ gen' = PrimeCalled([gen EXCEPT !.prime = gen.candidate, !.p = gen.candidate],
                          gen.keybits \div 2, "q")
    /\ mr' = [pc |-> "idle"]
    /\ UNCHANGED <<call, ret, server, client, link>>

\* while (q == p) q = generate_prime(bits / 2)
KeysRedrawQ ==
    /\ gen.pc = "test" /\ mr.pc = "done" /\ mr.result = "true"
    /\ gen.stage = "q" /\ gen.candidate = gen.p
    /\ gen' = PrimeCalled([gen EXCEPT !.prime = gen.candidate, !.q = gen.candidate],
                          gen.keybits \div 2, "q")
    /\ mr' = [pc |-> "idle"]
    /\ UNCHANGED <<call, ret, server, client, link>>

\* q differs from p: n, phi, e and d are computed and generate_rsa_keys returns
KeysDone ==
    /\ gen.pc = "test" /\ mr.pc = "done" /\ mr.result = "true"
    /\ gen.stage = "q" /\ gen.candidate # gen.p
    /\ gen' = [gen EXCEPT !.pc = "done", !.prime = gen.candidate, !.q = gen.candidate,
                          !.keys = RsaKeys(gen.p, gen.candidate)]
    /\ mr' = [pc |-> "idle"]
    /\ UNCHANGED <<call, ret, server, client, link>>

SpecGen == InitGen /\ [][GenDraw \/ MRCall \/ MRRoundStep \/ GenRetry \/ GenReturn
                          \/ KeysGotP \/ KeysRedrawQ \/ KeysDone]_vars

(***************************************************************************)
(* generate_prime under fair sampling: every value gen() can yield is      *)
(* drawn again and again                                                   *)
(***************************************************************************)
\* generate_prime is called with bits in 2..MaxFairBits
MaxFairBits == 5

\* the 64-bit values gen() yields, up to the bits the mask of random_number
\* drops: for bits <= MaxFairBits, all of them
LowChunks == 0..(2^MaxFairBits - 1)

\* random_number(bits) for each of these values of gen(), tabulated
Candidate == [bits \in 2..MaxFairBits |->
                [v \in LowChunks |-> random_number(bits, <<B(v)>>)]]

\* the round of miller_rabin_test for each n that can be a candidate and each
\* witness it can draw, tabulated
RoundPasses == [n \in 4..(2^MaxFairBits - 1) |->
                  [a \in { N(w) : w \in Witnesses(B(n)) } |-> MRRound(B(n), B(a))]]

InitPrime ==
    /\ gen \in { PrimeCalled([GenStart EXCEPT !.fn = "generate_prime"], bits, "main") :
                   bits \in 2..MaxFairBits }
    /\ mr = [pc |-> "idle"]
    /\ call = Off /\ ret = Off /\ server = Off /\ client = Off /\ link = Off

\* generate_prime: candidate = random_number(bits) with gen() yielding v, then
\* miller_rabin_test(candidate, 10)
GenDrawChunk(v) ==
    /\ gen.pc = "draw" /\ Iterations(gen.bits) = 1
    /\ gen' = [gen EXCEPT !.pc = "test", !.candidate = Candidate[gen.bits][v]]
    /\ mr' = MRCalled(Candidate[gen.bits][v], PrimeRounds)
    /\ UNCHANGED <<call, ret, server, client, link>>

GenDrawAny == \E v \in LowChunks : GenDrawChunk(v)

\* round i of the for loop, as MRRoundStep, the round read off RoundPasses
MRRoundLookup ==
    /\ mr.pc = "rounds"
    /\ \E a \in Witnesses(mr.n) :
         mr' = IF ~RoundPasses[N(mr.n)][N(a)]
               THEN [mr EXCEPT !.a = a, !.pc = "done", !.result = "false"]
               ELSE IF mr.i + 1 < mr.k
               THEN [mr EXCEPT !.a = a, !.i = @ + 1]
               ELSE [mr EXCEPT !.a = a, !.i = @ + 1, !.pc = "done", !.result = "true"]
    /\ UNCHANGED <<call, ret, gen, server, client, link>>

\* a draw whose candidate is a prime
GenDrawPrime == \E v \in LowChunks : IsPrime(N(Candidate[gen.bits][v])) /\ GenDrawChunk(v)

\* the program runs on (weak fairness of its steps), and the sampling is fair:
\* a value that can be drawn again and again is drawn again and again.  Of
\* this, what is stated is the strong fairness of the draws of a prime
FairSampling ==
    /\ WF_vars(MRCall) /\ WF_vars(MRRoundLookup) /\ WF_vars(GenRetry) /\ WF_vars(GenReturn)
    /\ SF_vars(GenDrawPrime)

SpecPrime == InitPrime /\ [][GenDrawAny \/ MRCall \/ MRRoundLookup \/ GenRetry \/ GenReturn]_vars
             /\ FairSampling

(***************************************************************************)
(* server.cpp and client.cpp talking over TCP connections                  *)
(***************************************************************************)
\* a run makes at most MaxConnections connections; a client sends at most
\* MaxMessages messages on one; a peer that is not client.cpp sends payloads of
\* at most MaxRawLen bytes; at most MaxFaults transport failures happen
MaxConnections == 2
MaxMessages == 2
MaxRawLen == 3
MaxFaults == 1

\* the prime pairs generate_rsa_keys may have drawn for the server: two primes
\* of 5 bits, and two of 20 bits of which the first is 14 * 65537 + 1
ServerPrimes == { <<17, 31>>, <<917519, 786433>> }

\* the bytes a peer that is not client.cpp puts on the wire: 1, '|', ',', g
WireBytes == {49, Bar, Comma, 103}
RawPayloads == UNION { [1..len -> WireBytes] : len \in 1..MaxRawLen }

\* what uniform_int_distribution<cpp_int>(1, n - 1) may draw: a sample
Nonces(n) == { <<2>>, BSub(n, <<1>>) }

\* what the user types at the prompt, "." apart: nothing, "Hi", the byte 200
Messages == { <<>>, <<72, 105>>, <<200>> }

\* the connection of the current run (link.opened counts them, link.pending
\* tells that it waits in the backlog for accept): who connected, how many
\* payloads the peer has sent, the payloads in flight each way, which ends are
\* closed, whether the transport has failed
Conn(peer) == [peer |-> peer, sends |-> 0, c2s |-> <<>>, s2c |-> <<>>,
               pclosed |-> FALSE, sclosed |-> FALSE, broken |-> FALSE]

\* the connection once the server has closed its socket, once the peer has,
\* and once the transport has failed: what nobody can read any more is dropped
ServerClosed(c) == [c EXCEPT !.sclosed = TRUE, !.c2s = <<>>]
PeerClosed(c) == [c EXCEPT !.pclosed = TRUE, !.s2c = <<>>]
Broken(c) == [c EXCEPT !.broken = TRUE, !.c2s = <<>>, !.s2c = <<>>]

\* the server before any request of a connection
NoRequest == [seq |-> 0, payload |-> <<>>, outcome |-> "none", iv |-> <<>>, plain |-> <<>>]

\* the client (or the other peer) before it connects: no key, no message, no
\* nonce, no response; sent and acked count its requests and the responses read
NotConnected(kind) == [kind |-> kind, pc |-> "start", s |-> 0, e |-> <<>>, n |-> <<>>,
                       message |-> <<>>, nonce |-> <<>>, response |-> <<>>,
                       sent |-> 0, acked |-> 0]

\* the body of the server's message loop once recv has returned data: the
\* outcome is "invalid" (no '|': reported, continue), "threw" (cpp_int(string)
\* threw, nothing catches it) or "acked" (a response is built)
Handle(data, d, n) ==
    LET k == Find(data, Bar)
    IN  IF k = 0
        THEN [outcome |-> "invalid", iv |-> <<>>, plain |-> <<>>, response |-> <<>>]
        ELSE LET encrypted_nonce_str == SubSeq(data, 1, k - 1)
                 encrypted_message_str == SubSeq(data, k + 1, Len(data))
                 encrypted_nonce == ParseCppInt(encrypted_nonce_str)
             IN  IF ~encrypted_nonce.ok
                 THEN [outcome |-> "threw", iv |-> <<>>, plain |-> <<>>, response |-> <<>>]
                 ELSE LET iv == rsa_decrypt(encrypted_nonce.val, d, n)
                          blocks == Blocks(encrypted_message_str)
                          parsed == [i \in 1..Len(blocks) |-> ParseCppInt(blocks[i])]
                      IN  IF \E i \in 1..Len(blocks) : ~parsed[i].ok
                          THEN [outcome |-> "threw", iv |-> iv, plain |-> <<>>,
                                response |-> <<>>]
                          ELSE LET encrypted_message == [i \in 1..Len(blocks) |-> parsed[i].val]
                                   decrypted_message == cbc_decrypt(encrypted_message, d, n, iv)
                               IN  [outcome |-> "acked", iv |-> iv,
                                    plain |-> decrypted_message,
                                    response |-> Response(decrypted_message)]

\* the server has its key pair and listens; the peer has not connected
InitSession ==
    /\ server \in { [pc |-> "accept", keys |-> RsaKeys(B(pq[1]), B(pq[2])), ns |-> 0,
                     handled |-> NoRequest] : pq \in ServerPrimes }
    /\ client \in { NotConnected(kind) : kind \in {"client", "raw"} }
    /\ link = [opened |-> 0, pending |-> FALSE, conn |-> ServerClosed(PeerClosed(Conn("none"))),
               faults |-> 0]
    /\ call = Off /\ ret = Off /\ mr = Off /\ gen = Off

\* whether a send on connection c succeeds: never once the transport has
\* failed, and it may fail now
SendOutcomes(c) == IF c.broken THEN {FALSE}
                   ELSE IF link.faults < MaxFaults THEN {TRUE, FALSE}
                   ELSE {TRUE}

\* recv of the server returns <= 0: the transport failed, or the peer closed
\* and nothing is left to read
ServerRecvFails(c) == c.broken \/ (c.c2s = <<>> /\ c.pclosed)

\* recv of the peer returns <= 0
PeerRecvFails(c) == c.broken \/ (c.s2c = <<>> /\ (c.sclosed \/ server.pc = "terminated"))

\* the transport of an open connection fails
LinkFault ==
    /\ link.faults < MaxFaults
    /\ ~link.conn.broken /\ ~link.conn.pclosed /\ ~link.conn.sclosed
    /\ link' = [link EXCEPT !.conn = Broken(@), !.faults = @ + 1]
    /\ UNCHANGED <<call, ret, mr, gen, server, client>>

\* accept, then send the public key; a failed send closes the socket and the
\* server accepts again
ServerAccept ==
    /\ server.pc = "accept" /\ link.pending
    /\ LET id == link.opened
           c == link.conn
           public_key == PublicKeyText(server.keys.e, server.keys.n)
       IN  \E ok \in SendOutcomes(c) :
             IF ok
             THEN /\ server' = [server EXCEPT !.pc = "recv", !.ns = id, !.handled = NoRequest]
                  /\ link' = [link EXCEPT !.pending = FALSE,
                                          !.conn.s2c = Append(@, public_key)]
             ELSE /\ server' = [server EXCEPT !.ns = 0, !.handled = NoRequest]
                  /\ link' = [link EXCEPT !.pending = FALSE,
                                          !.conn = ServerClosed(Broken(@)),
                                          !.faults = IF c.broken THEN @ ELSE @ + 1]
    /\ UNCHANGED <<call, ret, mr, gen, client>>

\* recv returned <= 0 and the server process exits
ServerDisconnectExits ==
    /\ server.pc = "recv" /\ ServerRecvFails(link.conn)
    /\ server' = [server EXCEPT !.pc = "terminated", !.ns = 0, !.handled = NoRequest]
    /\ link' = [link EXCEPT !.conn = ServerClosed(@)]
    /\ UNCHANGED <<call, ret, mr, gen, client>>

\* recv returned <= 0: leave the message loop, close the socket, accept again
ServerDisconnect ==
    /\ server.pc = "recv" /\ ServerRecvFails(link.conn)
    /\ server' = [server EXCEPT !.pc = "accept", !.ns = 0, !.handled = NoRequest]
    /\ link' = [link EXCEPT !.conn = ServerClosed(@)]
    /\ UNCHANGED <<call, ret, mr, gen, client>>

\* one turn of the message loop on a payload received: report a missing
\* delimiter and go on, terminate on an exception, else decrypt and respond
ServerRecv ==
    /\ server.pc = "recv"
    /\ LET c == link.conn
       IN  /\ ~c.broken /\ c.c2s # <<>>
           /\ LET data == Head(c.c2s)
                  h == Handle(data, server.keys.d.mag, server.keys.n)
                  handled == [seq |-> server.handled.seq + 1, payload |-> data,
                              outcome |-> h.outcome, iv |-> h.iv, plain |-> h.plain]
              IN  CASE h.outcome = "invalid" ->
                         /\ server' = [server EXCEPT !.handled = handled]
                         /\ link' = [link EXCEPT !.conn.c2s = Tail(@)]
                    [] h.outcome = "threw" ->
                         /\ server' = [server EXCEPT !.pc = "terminated", !.handled = handled]
                         /\ link' = [link EXCEPT !.conn = ServerClosed(@)]
                    [] h.outcome = "acked" ->
                         \E ok \in SendOutcomes(c) :
                           IF ok
                           THEN /\ server' = [server EXCEPT !.handled = handled]
                                /\ link' = [link EXCEPT !.conn.c2s = Tail(@),
                                                        !.conn.s2c = Append(@, h.response)]
                           ELSE /\ server' = [server EXCEPT !.pc = "accept", !.ns = 0,
                                                 !.handled = [handled EXCEPT !.outcome = "unsent"]]
                                /\ link' = [link EXCEPT !.conn = ServerClosed(Broken(@)),
                                                        !.faults = @ + 1]
    /\ UNCHANGED <<call, ret, mr, gen, client>>

\* a run of client.cpp (or of another peer) starts, once the server is done
\* with the connection of the run before, and connects; the connection waits
\* in the backlog of the listening socket.  With the server terminated,
\* connect fails and the run ends
ClientConnect ==
    /\ client.pc \in {"start", "exited"}
    /\ link.opened < MaxConnections
    /\ ~link.pending /\ server.ns = 0
    /\ IF server.pc = "terminated"
       THEN /\ client' = [NotConnected(client.kind) EXCEPT !.pc = "exited"]
            /\ link' = [link EXCEPT !.opened = @ + 1,
                                    !.conn = ServerClosed(PeerClosed(Conn(client.kind)))]
       ELSE /\ client' = [NotConnected(client.kind) EXCEPT
                            !.pc = IF client.kind = "client" THEN "recv_key" ELSE "raw",
                            !.s = link.opened + 1]
            /\ link' = [link EXCEPT !.opened = @ + 1, !.pending = TRUE,
                                    !.conn = Conn(client.kind)]
    /\ UNCHANGED <<call, ret, mr, gen, server>>

\* recv of the public key and its parsing: no '|' ends the run, as does a
\* failed recv or a number that does not parse
ClientRecvKey ==
    /\ client.kind = "client" /\ client.pc = "recv_key"
    /\ LET c == link.conn
       IN  /\ ~PeerRecvFails(c) /\ c.s2c # <<>>
           /\ LET key_data == Head(c.s2c)
                  sep == Find(key_data, Bar)
                  e == ParseCppInt(SubSeq(key_data, 1, sep - 1))
                  n == ParseCppInt(SubSeq(key_data, sep + 1, Len(key_data)))
              IN  IF sep = 0 \/ ~e.ok \/ ~n.ok
                  THEN /\ client' = [client EXCEPT !.pc = "exited"]
                       /\ link' = [link EXCEPT !.conn = PeerClosed(@)]
                  ELSE /\ client' = [client EXCEPT !.pc = "prompt", !.e = e.val, !.n = n.val]
                       /\ link' = [link EXCEPT !.conn.s2c = Tail(@)]
    /\ UNCHANGED <<call, ret, mr, gen, server>>

\* a recv of the client returned <= 0: the run ends
ClientRecvFailed ==
    /\ client.kind = "client" /\ client.pc \in {"recv_key", "recv_ack"}
    /\ PeerRecvFails(link.conn)
    /\ client' = [client EXCEPT !.pc = "exited"]
    /\ link' = [link EXCEPT !.conn = PeerClosed(@)]
    /\ UNCHANGED <<call, ret, mr, gen, server>>

\* the user types ".": the loop ends and the socket is closed
ClientQuit ==
    /\ client.kind = "client" /\ client.pc = "prompt"
    /\ client' = [client EXCEPT !.pc = "exited"]
    /\ link' = [link EXCEPT !.conn = PeerClosed(@)]
    /\ UNCHANGED <<call, ret, mr, gen, server>>

\* the user types a message: draw the nonce, encrypt it and the message, send
\* <encrypted nonce>|<blocks>; a failed send ends the run
ClientSend ==
    /\ client.kind = "client" /\ client.pc = "prompt"
    /\ client.sent < MaxMessages
    /\ LET c == link.conn
       IN  \E message \in Messages, nonce \in Nonces(client.n) :
             LET encrypted_nonce == rsa_encrypt(nonce, client.e, client.n)
                 encrypted_message == cbc_encrypt(message, client.e, client.n, nonce)
                 send_data == Request(encrypted_nonce, encrypted_message)
             IN  \E ok \in SendOutcomes(c) :
                   IF ok
                   THEN /\ client' = [client EXCEPT !.pc = "recv_ack", !.sent = @ + 1,
                                                    !.message = message, !.nonce = nonce]
                        /\ link' = [link EXCEPT !.conn.c2s = Append(@, send_data),
                                                !.conn.sends = @ + 1]
                   ELSE /\ client' = [client EXCEPT !.pc = "exited", !.sent = @ + 1,
                                                    !.message = message, !.nonce = nonce]
                        /\ link' = [link EXCEPT !.conn = PeerClosed(Broken(@)),
                                                !.faults = IF c.broken THEN @ ELSE @ + 1]
    /\ UNCHANGED <<call, ret, mr, gen, server>>

\* recv of the acknowledgement, then back to the prompt
ClientRecvAck ==
    /\ client.kind = "client" /\ client.pc = "recv_ack"
    /\ LET c == link.conn
       IN  /\ ~PeerRecvFails(c) /\ c.s2c # <<>>
           /\ client' = [client EXCEPT !.pc = "prompt", !.acked = @ + 1,
                                       !.response = Head(c.s2c)]
           /\ link' = [link EXCEPT !.conn.s2c = Tail(@)]
    /\ UNCHANGED <<call, ret, mr, gen, server>>

\* a peer that is not client.cpp sends a payload of its own making
RawSend ==
    /\ client.kind = "raw" /\ client.pc = "raw"
    /\ client.sent < 1
    /\ ~link.conn.broken
    /\ \E payload \in RawPayloads :
         /\ client' = [client EXCEPT !.sent = @ + 1]
         /\ link' = [link EXCEPT !.conn.c2s = Append(@, payload),
                                 !.conn.sends = @ + 1]
    /\ UNCHANGED <<call, ret, mr, gen, server>>

\* that peer closes its socket
RawClose ==
    /\ client.kind = "raw" /\ client.pc = "raw"
    /\ client' = [client EXCEPT !.pc = "exited"]
    /\ link' = [link EXCEPT !.conn = PeerClosed(@)]
    /\ UNCHANGED <<call, ret, mr, gen, server>>

SpecSession == InitSession /\ [][LinkFault \/ ServerAccept \/ ServerDisconnect \/ ServerRecv
                                  \/ ClientConnect \/ ClientRecvKey \/ ClientRecvFailed
                                  \/ ClientQuit \/ ClientSend \/ ClientRecvAck
                                  \/ RawSend \/ RawClose]_vars

(***************************************************************************)
(* Properties of the library calls                                         *)
(***************************************************************************)
\* C3: mod_inverse(e, phi), e >= 1 and phi > 1, returns for coprime e and phi
\* the unique d with 0 <= d < phi and (e*d) mod phi = 1 (also for e > phi and
\* after the adjustment t += phi), and returns 0 when gcd(e, phi) # 1.
ModInverseCorrect ==
    ret.pc = "returned" =>
        LET e == N(call.e)
            phi == N(call.phi)
        IN  IF Gcd(e, phi) = 1
            THEN /\ ~ret.d.neg
                 /\ BLess(ret.d.mag, call.phi)
                 /\ \A x \in 0..(phi - 1) :
                        ((e % phi) * x) % phi = 1 <=> x = N(ret.d.mag)
            ELSE ret.d = Signed(FALSE, <<>>)

\* an inverse of an e above phi whose coefficient t ended negative and was adjusted
ModInverseAdjusted ==
    /\ ret.pc = "returned"
    /\ Gcd(N(call.e), N(call.phi)) = 1
    /\ BLess(call.phi, call.e)
    /\ ModInverseLoop(Signed(FALSE, <<>>), Signed(FALSE, <<1>>), call.phi, call.e).t.neg
    /\ (N(call.e) % N(call.phi)) * N(ret.d.mag) % N(call.phi) = 1

\* C2: for every valid key pair (n, e, d) and every m in [0, n-1],
\* rsa_decrypt(rsa_encrypt(m, e, n), d, n) = m.
RsaInverseLaw == ret.pc = "decrypted" => ret.m = call.m

\* an m sharing a factor with n that was encrypted to another value and recovered
RsaRecovered ==
    /\ ret.pc = "decrypted"
    /\ N(call.m) > 1 /\ Gcd(N(call.m), N(call.key.n)) > 1
    /\ ret.c # call.m
    /\ ret.m = call.m

\* C1 as stated: for every plaintext, every valid key pair and every iv in
\* [1, n-1], cbc_decrypt(cbc_encrypt(P, e, n, iv), d, n, iv) = P.
CbcRoundTripAnyKey ==
    (call.fn = "cbc" /\ ret.pc = "decrypted") => ret.plain = call.plaintext

\* C1 amended: the round trip returns P for every plaintext, every valid key
\* pair whose modulus n exceeds 255 and every iv in [1, n-1].
CbcRoundTrip ==
    (call.fn = "cbc" /\ ret.pc = "decrypted" /\ BLess(<<255>>, call.key.n))
        => ret.plain = call.plaintext

\* a two-byte plaintext recovered under a modulus above 255 with an iv whose
\* low byte is not zero
CbcRecovered ==
    /\ call.fn = "cbc" /\ ret.pc = "decrypted"
    /\ BLess(<<255>>, call.key.n)
    /\ Len(call.plaintext) = 2 /\ call.plaintext[1] # call.plaintext[2]
    /\ Low8(call.iv) # <<>>
    /\ ret.plain = call.plaintext

RECURSIVE PowModNat(_, _, _)
\* a^e mod n by repeated multiplication
PowModNat(a, e, n) == IF e = 0 THEN 1 % n ELSE (a * PowModNat(a, e - 1, n)) % n

\* the s of m = d * 2^s with d odd
TwoPart(m) == CHOOSE s \in 0..m : m % (2^s) = 0 /\ m % (2^(s + 1)) # 0

\* a is a strong liar for the odd n > 2: a^d = 1 or a^(d * 2^r) = n - 1 modulo
\* n for some r below s, where n - 1 = d * 2^s
StrongLiar(n, a) ==
    LET s == TwoPart(n - 1)
        d == (n - 1) \div (2^s)
    IN  \/ PowModNat(a, d, n) = 1
        \/ \E r \in 0..(s - 1) : PowModNat(a, d * (2^r), n) = n - 1

\* C8: for every prime n, every round count k >= 1 and every choice of the
\* witnesses in [2, n-2], miller_rabin_test(n, k) returns true.
MRAcceptsPrimes ==
    (mr.pc = "done" /\ IsPrime(N(mr.n))) => mr.result = "true"

\* a prime above 3 accepted after several rounds, the last one by a witness
\* whose power a^d is neither 1 nor n - 1
MRPrimeAllRounds ==
    /\ mr.pc = "done" /\ mr.result = "true"
    /\ IsPrime(N(mr.n)) /\ N(mr.n) > 3
    /\ mr.k > 1 /\ mr.i = mr.k
    /\ LET n == N(mr.n)
           d == (n - 1) \div (2^TwoPart(n - 1))
       IN  PowModNat(N(mr.a), d, n) \notin {1, n - 1}

\* C9 as stated: for every composite n (and n <= 1 and even n > 2),
\* miller_rabin_test(n, k) with k >= 5 returns false whatever witnesses are drawn.
MRRejectsComposites ==
    (mr.pc = "done" /\ mr.k >= 5 /\ ~IsPrime(N(mr.n))) => mr.result = "false"

\* C9 amended: miller_rabin_test(n, k) returns false for n <= 1 and for even
\* n > 2, and for a composite n it returns false in the round that draws a
\* witness that is not a strong liar for n; it returns true for a composite
\* only when all k witnesses drawn are strong liars.
MRRejectsNonLiars ==
    LET n == N(mr.n)
    IN  /\ (mr.pc = "done" /\ (n <= 1 \/ (n % 2 = 0 /\ n > 2))) => mr.result = "false"
        /\ (mr.a # <<>> /\ ~IsPrime(n) /\ ~StrongLiar(n, N(mr.a)))
              => (mr.pc = "done" /\ mr.result = "false")
        /\ (mr.pc = "done" /\ ~IsPrime(n) /\ mr.result = "true")
              => (mr.i = mr.k /\ StrongLiar(n, N(mr.a)))

\* a composite with strong liars rejected after rounds that passed
MRLateReject ==
    /\ mr.pc = "done" /\ mr.result = "false"
    /\ ~IsPrime(N(mr.n)) /\ mr.k >= 5 /\ mr.i >= 1
    /\ ~StrongLiar(N(mr.n), N(mr.a))

\* v is odd and 2^(bits-1) <= v < 2^bits
ExactBits(v, bits) ==
    /\ v # <<>> /\ v[1] % 2 = 1
    /\ BLeq(Pow2(bits - 1), v)
    /\ BLess(v, Pow2(bits))

\* C10: for every bits > 1, every candidate built by random_number(bits) and
\* every value returned by generate_prime(bits) is odd and satisfies
\* 2^(bits-1) <= v < 2^bits, whatever 64-bit chunks the generator yields.
BitLength ==
    /\ gen.candidate # <<>> => ExactBits(gen.candidate, gen.bits)
    /\ gen.prime # <<>> => ExactBits(gen.prime, gen.bits)

\* generate_prime returned a prime of more than 64 bits, built from two chunks
BitLengthTwoChunks ==
    /\ gen.fn = "generate_prime" /\ gen.pc = "done"
    /\ gen.bits > 64
    /\ gen.prime = gen.candidate
    /\ Len(gen.prime) = 5

\* C4: every key pair generate_rsa_keys returns has n = p*q with p # q,
\* e = 65537 and (e*d) mod (p-1)(q-1) = 1; d = 0 is never returned.
KeysHaveInverse ==
    gen.keys # NoKeys =>
        LET phi == BMul(BSub(gen.p, <<1>>), BSub(gen.q, <<1>>))
        IN  /\ gen.keys.n = BMul(gen.p, gen.q)
            /\ gen.p # gen.q
            /\ gen.keys.e = B(65537)
            /\ ~gen.keys.d.neg
            /\ BMod(BMul(gen.keys.e, gen.keys.d.mag), phi) = <<1>>

(***************************************************************************)
(* Properties of the exchange between client and server                    *)
(***************************************************************************)
\* s is a decimal integer: one digit or more, digits only
AllDigits(s) == s # <<>> /\ \A i \in 1..Len(s) : s[i] >= 48 /\ s[i] <= 57

\* the payload has no '|', or an empty nonce text, or a nonce or a cipher field
\* that is no decimal integer
Malformed(data) ==
    LET k == Find(data, Bar)
    IN  \/ k = 0
        \/ /\ k > 0
           /\ LET nonce_text == SubSeq(data, 1, k - 1)
                  fields == Blocks(SubSeq(data, k + 1, Len(data)))
              IN  \/ ~AllDigits(nonce_text)
                  \/ \E i \in 1..Len(fields) : ~AllDigits(fields[i])

\* C6: whenever the payload the server has last handled is malformed (no '|',
\* empty nonce text, a nonce or cipher field that is no decimal integer), the
\* server has reported it as invalid and gone on with its message loop: it has
\* not terminated, and has neither acknowledged the payload nor left the
\* connection over it.
MalformedReported ==
    (server.handled.outcome # "none" /\ Malformed(server.handled.payload))
        => (server.handled.outcome = "invalid" /\ server.pc # "terminated")

\* C7: with client.cpp as the peer and no transport failure, the client has
\* sent at most one request more than it has read responses, and none more
\* when it is at its prompt (requests and acknowledgements alternate); the
\* response it read last is "Message received: P\r\n" for the P it sent last;
\* the server has acknowledged every request it handled, one response each,
\* and the IV and the plaintext it recovered from the latest are the client's
\* nonce and P.
ExchangeAcknowledged ==
    (client.kind = "client" /\ client.s # 0 /\ link.faults = 0) =>
        /\ client.acked <= client.sent
        /\ client.sent <= client.acked + 1
        /\ client.pc = "prompt" => client.sent = client.acked
        /\ (client.acked >= 1 /\ client.sent = client.acked) =>
              client.response = Response(client.message)
        /\ (server.ns = client.s /\ server.handled.seq >= 1) =>
              /\ server.handled.outcome = "acked"
              /\ server.handled.seq <= client.sent
              /\ server.handled.seq = client.sent =>
                    /\ server.handled.iv = client.nonce
                    /\ server.handled.plain = client.message
              /\ client.pc \in {"prompt", "recv_ack"} =>
                    client.acked + Len(link.conn.s2c) = server.handled.seq


(***************************************************************************)
(* Termination of the prime search                                         *)
(***************************************************************************)
\* C11: under fair sampling generate_prime(bits), bits > 1, eventually returns,
\* and it returns only at the end of a call miller_rabin_test(candidate, 10)
\* that returned true, the value returned being that candidate.
PrimeSearchReturns ==
    /\ <>(gen.pc = "done")
    /\ [][(gen.pc # "done" /\ gen'.pc = "done") =>
            (/\ mr.pc = "done" /\ mr.result = "true"
             /\ mr.k = PrimeRounds /\ mr.n = gen'.prime)]_vars

\* generate_prime has returned a value of more than 4 bits, which the rounds
\* of miller_rabin_test were run on
PrimeReturned ==
    /\ gen.fn = "generate_prime" /\ gen.pc = "done"
    /\ gen.bits > 4 /\ gen.prime = gen.candidate /\ MRTrivial(gen.prime) = "rounds"


(***************************************************************************)
(* Transport failures at the server                                        *)
(***************************************************************************)
\* a step of the server: its state changes, or it takes the connection out of
\* the backlog
ServerStep == server' # server \/ (link.pending /\ ~link'.pending)

\* C12: a step of the server whose recv returns zero or an error, or whose
\* send (of the public key, of an acknowledgement) fails, closes the connection
\* and leaves the server at accept, not terminated; no step changes the key
\* pair (n, e, d); and every connection accepted is sent e|n of that key pair.
TransportFailureLocal ==
    [][/\ server'.keys = server.keys
       /\ (ServerStep /\ ((server.pc = "recv" /\ ServerRecvFails(link.conn))
                          \/ link'.conn.broken))
             => (server'.pc = "accept" /\ server'.ns = 0 /\ link'.conn.sclosed)
       /\ (link.pending /\ ~link'.pending /\ ~link'.conn.broken)
             => link'.conn.s2c = <<PublicKeyText(server.keys.e, server.keys.n)>>]_vars

\* the first connection failed, and the client of the second has received and
\* parsed the server's key
ServedAfterFailure ==
    /\ link.opened = 2 /\ link.faults >= 1 /\ ~link.conn.broken
    /\ client.kind = "client" /\ client.pc = "prompt" /\ server.pc = "recv"
    /\ client.e = server.keys.e /\ client.n = server.keys.n


====
